---- MODULE Spec2Model ----
(***************************************************************************)
(* Invoice-guided auto labelling (collect.py) and the invoice structurer   *)
(* (invoice_parser.py).  Strings are sequences of one-character strings.   *)
(* Scores are exact rationals <<num, den>>; a formatted confidence is the  *)
(* integer number of thousandths printed by the "%.3f" conversion.         *)
(***************************************************************************)
EXTENDS Integers, Sequences, FiniteSets, TLC

\* ------------------------------------------------------------------------
\* Characters and generic string helpers
\* ------------------------------------------------------------------------
UpperSeq == <<"A","B","C","D","E","F","G","H","I","J","K","L","M",
              "N","O","P","Q","R","S","T","U","V","W","X","Y","Z">>

LowerSeq == <<"a","b","c","d","e","f","g","h","i","j","k","l","m",
              "n","o","p","q","r","s","t","u","v","w","x","y","z">>

Upper == {UpperSeq[i] : i \in 1..26}

Lower == {LowerSeq[i] : i \in 1..26}

Digit == {"0","1","2","3","4","5","6","7","8","9"}

\* the characters matched by \s
Space == {" ", "\t", "\n", "\r"}

\* the characters matched by \w
WordChar == Upper \cup Lower \cup Digit \cup {"_"}

\* str.lower() on one character
LowerChar(c) ==
    IF c \in Upper THEN LowerSeq[CHOOSE i \in 1..26 : UpperSeq[i] = c] ELSE c

\* str.lower()
LowerStr(s) == [i \in 1..Len(s) |-> LowerChar(s[i])]

\* Op(x) with x evaluated once, before Op is entered
Eager(x, Op(_)) == CHOOSE r \in {Op(v) : v \in {x}} : TRUE

\* s[lo..hi] (1-based, inclusive), empty when hi < lo
Slice(s, lo, hi) == IF hi < lo THEN <<>> ELSE SubSeq(s, lo, hi)

\* re.sub(r"\s+", " ", s): every maximal run of whitespace becomes one space
RECURSIVE CollapseSpaces(_)
CollapseSpaces(s) ==
    IF s = <<>> THEN <<>>
    ELSE IF Head(s) \in Space
         THEN IF Len(s) > 1 /\ s[2] \in Space
              THEN CollapseSpaces(Tail(s))
              ELSE <<" ">> \o CollapseSpaces(Tail(s))
         ELSE <<Head(s)>> \o CollapseSpaces(Tail(s))

\* first index >= i that is not whitespace
RECURSIVE SkipSpaces(_, _)
SkipSpaces(s, i) ==
    IF i <= Len(s) /\ s[i] \in Space THEN SkipSpaces(s, i + 1) ELSE i

\* last index <= i that is not whitespace
RECURSIVE SkipSpacesBack(_, _)
SkipSpacesBack(s, i) ==
    IF i >= 1 /\ s[i] \in Space THEN SkipSpacesBack(s, i - 1) ELSE i

\* str.strip()
Strip(s) == Slice(s, SkipSpaces(s, 1), SkipSpacesBack(s, Len(s)))

\* does pat occur in s at position i (1-based)
OccursAt(s, pat, i) ==
    /\ i >= 1
    /\ i + Len(pat) - 1 <= Len(s)
    /\ \A k \in 1..Len(pat) : s[i + k - 1] = pat[k]

\* str.find: first position of pat in s, 0 when absent
Find(s, pat) ==
    Eager({i \in 1..(Len(s) + 1) : OccursAt(s, pat, i)}, LAMBDA hits :
          IF hits = {} THEN 0 ELSE CHOOSE i \in hits : \A j \in hits : i <= j)

\* " ".join(lines)
RECURSIVE JoinSpace(_)
JoinSpace(ls) ==
    IF ls = <<>> THEN <<>>
    ELSE IF Len(ls) = 1 THEN ls[1]
    ELSE ls[1] \o <<" ">> \o JoinSpace(Tail(ls))

\* ------------------------------------------------------------------------
\* collect.py: normalize, score_match
\* ------------------------------------------------------------------------
\* characters kept by [^a-z0-9\s\-\.]
NormKeep == Lower \cup Digit \cup Space \cup {"-", "."}

\* runs of whitespace are kept and the ends are not trimmed
normalize_uncollapsed(s) ==
    Eager(LowerStr(s), LAMBDA low :
          [i \in 1..Len(low) |-> IF low[i] \in NormKeep THEN low[i] ELSE " "])

normalize(s) ==
    Eager(LowerStr(s), LAMBDA low :
    Eager([i \in 1..Len(low) |-> IF low[i] \in NormKeep THEN low[i] ELSE " "],
          LAMBDA sub :
    Eager(CollapseSpaces(sub), LAMBDA one : Strip(one))))

\* difflib: length of the common run of a and b that ends at (i, j) and stays
\* inside the window a[alo..], b[blo..]  (j2len[j] after row i)
RECURSIVE RunLen(_, _, _, _, _, _)
RunLen(a, b, alo, blo, i, j) ==
    IF i < alo \/ j < blo \/ a[i] # b[j] THEN 0
    ELSE 1 + RunLen(a, b, alo, blo, i - 1, j - 1)

\* difflib.SequenceMatcher.find_longest_match without junk: the longest
\* block, and among the longest the one that starts earliest in a, then in b.
\* Windows are 1-based and inclusive: a[alo..ahi], b[blo..bhi].
find_longest_match(a, b, alo, ahi, blo, bhi) ==
    LET len(c) == RunLen(a, b, alo, blo, c[1], c[2])
    IN Eager({c \in (alo..ahi) \X (blo..bhi) : len(c) > 0}, LAMBDA hits :
       IF hits = {} THEN [i |-> alo, j |-> blo, k |-> 0]
       ELSE Eager(CHOOSE c \in hits :
                      \A d \in hits :
                          \/ len(c) > len(d)
                          \/ /\ len(c) = len(d)
                             /\ \/ c[1] < d[1]
                                \/ c[1] = d[1] /\ c[2] <= d[2],
                  LAMBDA best :
            Eager(len(best), LAMBDA k :
                  [i |-> best[1] - k + 1, j |-> best[2] - k + 1, k |-> k])))

\* difflib.SequenceMatcher.get_matching_blocks: total size of the blocks
RECURSIVE MatchedChars(_, _, _, _, _, _)
MatchedChars(a, b, alo, ahi, blo, bhi) ==
    IF alo > ahi \/ blo > bhi THEN 0
    ELSE Eager(find_longest_match(a, b, alo, ahi, blo, bhi), LAMBDA m :
            IF m.k = 0 THEN 0
            ELSE m.k
                 + MatchedChars(a, b, alo, m.i - 1, blo, m.j - 1)
                 + MatchedChars(a, b, m.i + m.k, ahi, m.j + m.k, bhi))

\* difflib.SequenceMatcher.ratio: 2.0*matches/length, 1.0 when length = 0
ratio(a, b) ==
    IF Len(a) + Len(b) = 0 THEN <<1, 1>>
    ELSE <<2 * MatchedChars(a, b, 1, Len(a), 1, Len(b)), Len(a) + Len(b)>>

score_match(a, b) ==
    Eager(normalize(a), LAMBDA na : Eager(normalize(b), LAMBDA nb : ratio(na, nb)))

\* comparisons of rationals with positive denominators
RatGt(x, y) == x[1] * y[2] > y[1] * x[2]

RatGe(x, y) == x[1] * y[2] >= y[1] * x[2]

RatEq(x, y) == x[1] * y[2] = y[1] * x[2]

\* f"{x:.3f}": thousandths, rounded to nearest, ties to even
Fmt3(x) ==
    Eager(x, LAMBDA v :
          LET n == 1000 * v[1]
              q == n \div v[2]
              r == n % v[2]
          IN IF 2 * r > v[2] THEN q + 1
             ELSE IF 2 * r < v[2] THEN q
             ELSE IF q % 2 = 0 THEN q ELSE q + 1)

\* ------------------------------------------------------------------------
\* invoice_parser.py: normalize_common_errors, line_to_row, structure_items
\* ------------------------------------------------------------------------
\* is there a \b between s[i-1] and s[i]
IsBoundary(s, i) ==
    LET w(k) == k >= 1 /\ k <= Len(s) /\ s[k] \in WordChar
    IN w(i - 1) # w(i)

\* last index of the maximal run of digits that starts at i (i-1 when none)
RECURSIVE DigitRunEnd(_, _)
DigitRunEnd(s, i) ==
    IF i <= Len(s) /\ s[i] \in Digit THEN DigitRunEnd(s, i + 1) ELSE i - 1

DigitVal(c) == CHOOSE n \in 0..9 : <<"0","1","2","3","4","5","6","7","8","9">>[n + 1] = c

\* int() of the digits d[1..n]
RECURSIVE DigitsValue(_, _)
DigitsValue(d, n) ==
    IF n = 0 THEN 0 ELSE 10 * DigitsValue(d, n - 1) + DigitVal(d[n])

\* int() of a string of digits
DigitsToInt(d) == DigitsValue(d, Len(d))

\* length of the match of \b10O?p\b (ignoring case) at i, 0 when none
Match10p(s, i) ==
    IF ~(IsBoundary(s, i) /\ OccursAt(s, <<"1", "0">>, i)) THEN 0
    ELSE IF i + 3 <= Len(s) /\ s[i + 2] \in {"O", "o"} /\ s[i + 3] \in {"P", "p"}
            /\ IsBoundary(s, i + 4) THEN 4
    ELSE IF i + 2 <= Len(s) /\ s[i + 2] \in {"P", "p"} /\ IsBoundary(s, i + 3) THEN 3
    ELSE 0

\* re.sub(r"\b10O?p\b", "100pc", s, flags=re.IGNORECASE), from position i on
RECURSIVE Sub10p(_, _)
Sub10p(s, i) ==
    IF i > Len(s) THEN <<>>
    ELSE LET n == Match10p(s, i)
         IN IF n > 0 THEN <<"1", "0", "0", "p", "c">> \o Sub10p(s, i + n)
            ELSE <<s[i]>> \o Sub10p(s, i + 1)

\* re.sub(r"^[\{\[\(]+(?=\d)", "", s)
RECURSIVE BracketRunEnd(_, _)
BracketRunEnd(s, i) ==
    IF i <= Len(s) /\ s[i] \in {"{", "[", "("} THEN BracketRunEnd(s, i + 1) ELSE i - 1

StripLeadingBrackets(s) ==
    Eager(BracketRunEnd(s, 1), LAMBDA e :
          IF e >= 1 /\ e + 1 <= Len(s) /\ s[e + 1] \in Digit
          THEN Slice(s, e + 1, Len(s))
          ELSE s)

\* characters kept by [^0-9a-zA-Z\s\.\-\/%:]
CommonKeep == Digit \cup Lower \cup Upper \cup Space \cup {".", "-", "/", "%", ":"}

normalize_common_errors(s) ==
    Eager(Sub10p(s, 1), LAMBDA s1 :
    Eager(StripLeadingBrackets(s1), LAMBDA s2 :
    Eager([i \in 1..Len(s2) |-> IF s2[i] \in CommonKeep THEN s2[i] ELSE " "],
          LAMBDA s3 :
    Eager(CollapseSpaces(s3), LAMBDA one : Strip(one)))))

\* _item_no_re = ^\s*(\d{4,})\b : [start, end] of group 1, <<0, 0>> when none
ItemNoMatch(s) ==
    Eager(SkipSpaces(s, 1), LAMBDA b :
    Eager(DigitRunEnd(s, b), LAMBDA e :
          IF e - b + 1 >= 4 /\ IsBoundary(s, e + 1) THEN <<b, e>> ELSE <<0, 0>>))

\* does s[i..] match (d{1,3}(,ddd)*.dd | d+.dd | d+)$ as a whole
RECURSIVE ThousandsTail(_, _)
ThousandsTail(s, i) ==
    \* (,ddd)* \.dd $ from position i
    \/ /\ i + 2 = Len(s)
       /\ s[i] = "."
       /\ s[i + 1] \in Digit
       /\ s[i + 2] \in Digit
    \/ /\ i + 3 <= Len(s)
       /\ s[i] = ","
       /\ s[i + 1] \in Digit /\ s[i + 2] \in Digit /\ s[i + 3] \in Digit
       /\ ThousandsTail(s, i + 4)

PriceMatchesAt(s, i) ==
    Eager(DigitRunEnd(s, i), LAMBDA e :
       /\ i <= Len(s)
       /\ e >= i
       /\ \/ \E n \in 1..3 : n <= e - i + 1 /\ ThousandsTail(s, i + n)
          \/ /\ e + 3 = Len(s)
             /\ s[e + 1] = "."
             /\ s[e + 2] \in Digit
             /\ s[e + 3] \in Digit
          \/ e = Len(s))

\* _price_re.search(clean): start of the leftmost match, 0 when none
PriceStart(s) ==
    Eager({i \in 1..Len(s) : PriceMatchesAt(s, i)}, LAMBDA hits :
          IF hits = {} THEN 0 ELSE CHOOSE i \in hits : \A j \in hits : i <= j)

\* float(price_str) after replace(",", ""), in hundredths
PriceCents(p) ==
    Eager(SelectSeq(p, LAMBDA c : c # ","), LAMBDA nocomma :
    Eager(Find(nocomma, <<".">>), LAMBDA dot :
          IF dot = 0 THEN 100 * DigitsToInt(nocomma)
          ELSE Eager(Slice(nocomma, 1, dot - 1), LAMBDA whole :
               Eager(Slice(nocomma, dot + 1, Len(nocomma)), LAMBDA frac :
                     100 * DigitsToInt(whole) + DigitsToInt(frac)))))

\* \bqty\s*[:x]?\s*(\d+)\b at i (ignoring case): [start, end] of group 1
QtyWordMatchAt(s, i) ==
    IF ~(/\ IsBoundary(s, i)
         /\ i + 2 <= Len(s)
         /\ LowerStr(Slice(s, i, i + 2)) = <<"q", "t", "y">>)
    THEN <<0, 0>>
    ELSE Eager(SkipSpaces(s, i + 3), LAMBDA p1 :
         Eager(IF p1 <= Len(s) /\ s[p1] \in {":", "x", "X"} THEN p1 + 1 ELSE p1,
               LAMBDA p2 :
         Eager(SkipSpaces(s, p2), LAMBDA p3 :
         Eager(DigitRunEnd(s, p3), LAMBDA e :
               IF e >= p3 /\ IsBoundary(s, e + 1) THEN <<p3, e>> ELSE <<0, 0>>))))

\* \b(\d+)\s*x\b at i (ignoring case): [start, end] of group 1
QtyTimesMatchAt(s, i) ==
    Eager(DigitRunEnd(s, i), LAMBDA e :
    Eager(SkipSpaces(s, e + 1), LAMBDA p :
          IF /\ IsBoundary(s, i)
             /\ e >= i
             /\ p <= Len(s)
             /\ s[p] \in {"x", "X"}
             /\ IsBoundary(s, p + 1)
          THEN <<i, e>>
          ELSE <<0, 0>>))

\* the group of the leftmost match of the first pattern, else of the second
QtyMatch(s) ==
    Eager({i \in 1..Len(s) : QtyWordMatchAt(s, i) # <<0, 0>>}, LAMBDA h1 :
    Eager({i \in 1..Len(s) : QtyTimesMatchAt(s, i) # <<0, 0>>}, LAMBDA h2 :
          IF h1 # {} THEN QtyWordMatchAt(s, CHOOSE i \in h1 : \A j \in h1 : i <= j)
          ELSE IF h2 # {}
               THEN QtyTimesMatchAt(s, CHOOSE i \in h2 : \A j \in h2 : i <= j)
          ELSE <<0, 0>>))

\* item_no is <<>> for None; price is -1 for None, else hundredths
line_to_row(line) ==
    Eager(normalize_common_errors(line), LAMBDA clean :
    Eager(ItemNoMatch(clean), LAMBDA m_no :
    Eager(PriceStart(clean), LAMBDA p :
    Eager(QtyMatch(clean), LAMBDA m_qty :
    Eager(IF m_no # <<0, 0>> THEN Slice(clean, m_no[2] + 1, Len(clean)) ELSE clean,
          LAMBDA after_no :
    Eager(Slice(clean, 1, p - 1), LAMBDA before_price :
    Eager(IF m_qty # <<0, 0>> THEN Slice(clean, m_qty[1], m_qty[2]) ELSE <<>>,
          LAMBDA qty_str :
        [item_no |-> IF m_no # <<0, 0>> THEN Slice(clean, m_no[1], m_no[2]) ELSE <<>>,
         desc    |-> IF p # 0 THEN Strip(before_price)
                     ELSE IF m_no # <<0, 0>> THEN Strip(after_no) ELSE clean,
         qty     |-> IF m_qty # <<0, 0>> THEN DigitsToInt(qty_str) ELSE 1,
         price   |-> IF p # 0 THEN PriceCents(Slice(clean, p, Len(clean)))
                     ELSE -1])))))))

\* the decimal ties (in ten-thousandths) near 0.7 whose double lies above the
\* tie: round(0.6995, 3) = 0.7, round(0.7005, 3) = 0.701, round(0.7015, 3) =
\* 0.702, while round(0.6985, 3) = 0.698; other ties are no inputs of the model
TieAbove == {6995, 7005, 7015}

\* round(c, 3) of a confidence given in ten-thousandths, in thousandths: the
\* double is rounded, and the double of a decimal tie is no tie
Round3(c4) ==
    LET q == c4 \div 10
        r == c4 % 10
    IN IF r > 5 THEN q + 1
       ELSE IF r < 5 THEN q
       ELSE IF c4 \in TieAbove THEN q + 1 ELSE q

\* confidences and avg_conf are in ten-thousandths
structure_items(lines, confidences, avg_conf) ==
    [i \in 1..Len(lines) |->
        Eager(line_to_row(lines[i]), LAMBDA row :
        Eager(IF i <= Len(confidences) THEN confidences[i] ELSE avg_conf, LAMBDA c :
              [item_no      |-> row.item_no,
               desc         |-> row.desc,
               qty          |-> row.qty,
               price        |-> row.price,
               needs_review |-> c < 7000,
               confidence   |-> Round3(c)]))]

\* extract_invoice for an image file; res is the result of ocr_with_conf
extract_invoice(res) ==
    IF res.lines = <<>>
    THEN [error |-> TRUE, items |-> <<>>]
    ELSE [error |-> FALSE,
          items |-> structure_items(res.lines, res.confidences, res.avg_conf)]

\* ------------------------------------------------------------------------
\* ocr_reader.py: read_text
\* ------------------------------------------------------------------------
\* str.splitlines() at line feeds and carriage returns
RECURSIVE SplitLines(_, _)
SplitLines(s, acc) ==
    IF s = <<>> THEN (IF acc = <<>> THEN <<>> ELSE <<acc>>)
    ELSE IF Head(s) \in {"\n", "\r"} THEN <<acc>> \o SplitLines(Tail(s), <<>>)
    ELSE SplitLines(Tail(s), Append(acc, Head(s)))

_normalize_lines(lines) ==
    Eager([i \in 1..Len(lines) |->
              Eager(lines[i], LAMBDA l :
              Eager(Strip(l), LAMBDA t : CollapseSpaces(t)))],
          LAMBDA clean : SelectSeq(clean, LAMBDA l : l # <<>>))

\* "\n".join(lines)
RECURSIVE JoinNewline(_)
JoinNewline(ls) ==
    IF ls = <<>> THEN <<>>
    ELSE IF Len(ls) = 1 THEN ls[1]
    ELSE ls[1] \o <<"\n">> \o JoinNewline(Tail(ls))

\* tess and easy are the outcomes of the two engines on the image:
\* [ok |-> FALSE] when the engine raises, else its text / its list of strings
read_text(tess, easy) ==
    Eager(IF tess.ok
          THEN Eager(SplitLines(tess.text, <<>>), LAMBDA l : _normalize_lines(l))
          ELSE <<>>, LAMBDA tl :
    Eager(IF easy.ok THEN _normalize_lines(easy.result) ELSE <<>>, LAMBDA el :
          IF tess.ok /\ tl # <<>> THEN [full_text |-> tess.text, lines |-> tl]
          ELSE IF easy.ok THEN [full_text |-> JoinNewline(el), lines |-> el]
          ELSE [full_text |-> <<>>, lines |-> <<>>]))

\* ------------------------------------------------------------------------
\* collect.py: the correction store
\* ------------------------------------------------------------------------
\* str.replace(old, new), from position i on
RECURSIVE ReplaceFrom(_, _, _, _)
ReplaceFrom(s, old, new, i) ==
    IF old = <<>>
    THEN IF i > Len(s) THEN new ELSE new \o <<s[i]>> \o ReplaceFrom(s, old, new, i + 1)
    ELSE IF i > Len(s) THEN <<>>
    ELSE IF OccursAt(s, old, i)
         THEN new \o ReplaceFrom(s, old, new, i + Len(old))
         ELSE <<s[i]>> \o ReplaceFrom(s, old, new, i + 1)

\* str.replace(old, new)
Replace(s, old, new) == ReplaceFrom(s, old, new, 1)

\* a dict is the sequence of its <<key, value>> items in insertion order
HasKey(d, k) == \E i \in 1..Len(d) : d[i][1] = k

\* d[k] = v: an existing key keeps its position
DictSet(d, k, v) ==
    IF HasKey(d, k)
    THEN [i \in 1..Len(d) |-> IF d[i][1] = k THEN <<k, v>> ELSE d[i]]
    ELSE Append(d, <<k, v>>)

\* a JSON string literal without its quotes: '"' and '\' are escaped
RECURSIVE JsonEscapeFrom(_, _)
JsonEscapeFrom(s, i) ==
    IF i > Len(s) THEN <<>>
    ELSE (IF s[i] \in {"\"", "\\"} THEN <<"\\", s[i]>> ELSE <<s[i]>>)
         \o JsonEscapeFrom(s, i + 1)

JsonEscape(s) == JsonEscapeFrom(s, 1)

\* the string a JSON string literal stands for
RECURSIVE JsonUnescapeFrom(_, _)
JsonUnescapeFrom(s, i) ==
    IF i > Len(s) THEN <<>>
    ELSE IF s[i] = "\\" /\ i < Len(s)
         THEN <<s[i + 1]>> \o JsonUnescapeFrom(s, i + 2)
         ELSE <<s[i]>> \o JsonUnescapeFrom(s, i + 1)

JsonUnescape(s) == JsonUnescapeFrom(s, 1)

\* the dict of the first n members of a JSON object
RECURSIVE LoadMembers(_, _)
LoadMembers(members, n) ==
    IF n = 0 THEN <<>>
    ELSE Eager(LoadMembers(members, n - 1), LAMBDA d :
               DictSet(d, JsonUnescape(members[n][1]), JsonUnescape(members[n][2])))

\* json.loads of an object: later members overwrite earlier ones
json_loads(members) == LoadMembers(members, Len(members))

\* json.dumps of a dict: one member per item, in order
json_dumps(d) ==
    [kind    |-> "json",
     members |-> [i \in 1..Len(d) |-> <<JsonEscape(d[i][1]), JsonEscape(d[i][2])>>]]

\* file is [kind |-> "absent" | "corrupt" | "json", members |-> ...]
load_corrections(file) ==
    IF file.kind = "json" THEN json_loads(file.members) ELSE <<>>

\* every pair is replaced in the text as it was given: the last one wins
apply_corrections_last(s, corr) ==
    IF corr = <<>> THEN s ELSE Replace(s, corr[Len(corr)][1], corr[Len(corr)][2])

RECURSIVE apply_corrections(_, _)
apply_corrections(s, corr) ==
    IF corr = <<>> THEN s
    ELSE Eager(Replace(s, corr[1][1], corr[1][2]), LAMBDA out :
               apply_corrections(out, Tail(corr)))

\* pair.split("->", 1) with both sides stripped; ok is '"->" in pair'
ParsePair(pair) ==
    Eager(Find(pair, <<"-", ">">>), LAMBDA at :
          IF at = 0 THEN [ok |-> FALSE, bad |-> <<>>, good |-> <<>>]
          ELSE Eager(Slice(pair, 1, at - 1), LAMBDA left :
               Eager(Slice(pair, at + 2, Len(pair)), LAMBDA right :
                     [ok |-> TRUE, bad |-> Strip(left), good |-> Strip(right)])))

\* ------------------------------------------------------------------------
\* collect.py: helpers of main
\* ------------------------------------------------------------------------
\* the characters of file names, in code point order
AsciiSeq == <<".", "0","1","2","3","4","5","6","7","8","9">> \o UpperSeq \o LowerSeq

Ord(c) == CHOOSE i \in 1..Len(AsciiSeq) : AsciiSeq[i] = c

\* a < b for strings, as Python compares them
RECURSIVE LexLess(_, _)
LexLess(a, b) ==
    IF b = <<>> THEN FALSE
    ELSE IF a = <<>> THEN TRUE
    ELSE IF Head(a) = Head(b) THEN LexLess(Tail(a), Tail(b))
    ELSE Ord(Head(a)) < Ord(Head(b))

\* the files of the directory, descending by name
RECURSIVE SortedFiles_descending(_)
SortedFiles_descending(files) ==
    IF files = {} THEN <<>>
    ELSE Eager(CHOOSE x \in files : \A y \in files : y = x \/ LexLess(y.name, x.name),
               LAMBDA f :
         Eager(files \ {f}, LAMBDA rest : <<f>> \o SortedFiles_descending(rest)))

\* sorted(src_dir.glob("*.*")): the files of the directory, ascending by name
RECURSIVE SortedFiles(_)
SortedFiles(files) ==
    IF files = {} THEN <<>>
    ELSE Eager(CHOOSE x \in files : \A y \in files : y = x \/ LexLess(x.name, y.name),
               LAMBDA f :
         Eager(files \ {f}, LAMBDA rest : <<f>> \o SortedFiles(rest)))

\* Path.suffix: from the last dot on, empty when there is none
RECURSIVE LastDot(_, _)
LastDot(name, i) == IF i = 0 \/ name[i] = "." THEN i ELSE LastDot(name, i - 1)

Suffix(name) ==
    Eager(LastDot(name, Len(name)), LAMBDA d :
          IF d <= 1 \/ d = Len(name) THEN <<>> ELSE Slice(name, d, Len(name)))

ImageSuffixes == {<<".", "j", "p", "g">>, <<".", "j", "p", "e", "g">>,
                  <<".", "p", "n", "g">>, <<".", "w", "e", "b", "p">>}

IsImage(f) == Eager(Suffix(f.name), LAMBDA sfx : LowerStr(sfx) \in ImageSuffixes)

\* raw = " ".join(lines) if lines else (full_text or "")
RawText(f) ==
    Eager(read_text(f.tess, f.easy), LAMBDA r :
          IF r.lines # <<>> THEN JoinSpace(r.lines) ELSE r.full_text)

\* the descriptions of all items, the empty ones too
DescsOf_unfiltered(items) == [i \in 1..Len(items) |-> items[i].desc]

\* invoice_descs = [it.get("desc","") for it in invoice_items if it.get("desc")]
DescsOf(items) ==
    Eager([i \in 1..Len(items) |-> items[i].desc], LAMBDA all :
          SelectSeq(all, LAMBDA d : d # <<>>))

\* the scan with >= : a later description with an equal score replaces the best
RECURSIVE BestScan_lastwins(_, _, _, _)
BestScan_lastwins(text, descs, best, best_score) ==
    IF descs = <<>> THEN [best |-> best, best_score |-> best_score]
    ELSE Eager(score_match(text, Head(descs)), LAMBDA sc :
               IF RatGe(sc, best_score)
               THEN BestScan_lastwins(text, Tail(descs), Head(descs), sc)
               ELSE BestScan_lastwins(text, Tail(descs), best, best_score))

\* the scan for the best invoice description; best is <<>> for None
RECURSIVE BestScan(_, _, _, _)
BestScan(text, descs, best, best_score) ==
    IF descs = <<>> THEN [best |-> best, best_score |-> best_score]
    ELSE Eager(score_match(text, Head(descs)), LAMBDA sc :
               IF RatGt(sc, best_score)
               THEN BestScan(text, Tail(descs), Head(descs), sc)
               ELSE BestScan(text, Tail(descs), best, best_score))

BestMatch(text, descs) == BestScan(text, descs, <<>>, <<0, 1>>)

\* the comparison with the threshold made strict
AutoAccept_strict(bm, thr) == bm.best # <<>> /\ RatGt(bm.best_score, thr)

\* if best and best_score >= args.threshold
AutoAccept(bm, thr) == bm.best # <<>> /\ RatGe(bm.best_score, thr)

\* sorted(descs, key=score, reverse=True): descending, equal keys keep their order
RECURSIVE InsertDesc(_, _, _)
InsertDesc(text, sorted, d) ==
    IF sorted = <<>> THEN <<d>>
    ELSE IF RatGt(score_match(text, d), score_match(text, Head(sorted)))
         THEN <<d>> \o sorted
         ELSE <<Head(sorted)>> \o InsertDesc(text, Tail(sorted), d)

\* the first n descriptions, sorted
RECURSIVE SortPrefix(_, _, _)
SortPrefix(text, descs, n) ==
    IF n = 0 THEN <<>>
    ELSE Eager(SortPrefix(text, descs, n - 1), LAMBDA sorted :
               InsertDesc(text, sorted, descs[n]))

SortByScore(text, descs) == SortPrefix(text, descs, Len(descs))

TopK == 5

\* the first five descriptions as the invoice lists them
Candidates_unsorted(text, descs) ==
    Slice(descs, 1, IF Len(descs) < TopK THEN Len(descs) ELSE TopK)

\* cand = sorted(...)[:5]
Candidates(text, descs) ==
    Eager(SortByScore(text, descs), LAMBDA s :
          Slice(s, 1, IF Len(s) < TopK THEN Len(s) ELSE TopK))

\* int(line.strip()): an optional sign and decimal digits; ok is FALSE when
\* int() raises ValueError
ParseInt(line) ==
    Eager(Strip(line), LAMBDA t :
    Eager(t # <<>> /\ t[1] \in {"+", "-"}, LAMBDA signed :
    Eager(IF signed THEN Tail(t) ELSE t, LAMBDA digits :
    Eager(digits # <<>> /\ \A i \in 1..Len(digits) : digits[i] \in Digit,
          LAMBDA good :
          [ok  |-> good,
           val |-> IF ~good THEN 0
                   ELSE IF signed /\ t[1] = "-" THEN 0 - DigitsToInt(digits)
                   ELSE DigitsToInt(digits)]))))

Unmatched == <<"U", "n", "m", "a", "t", "c", "h", "e", "d">>

\* one line of labels.csv after the header
Row(name, label, conf, review) ==
    [filename |-> name, label |-> label, confidence |-> conf, needs_review |-> review]

\* f"{dst_name},\"{best}\",{best_score:.3f},false\n"
AutoRow(name, label, score) == Row(name, label, Fmt3(score), FALSE)

\* LABELS_CSV.open("a").write(row)
AppendRow(csv, row) == [csv EXCEPT !.rows = Append(@, row)]

\* (IMAGES_DIR / dst_name).write_bytes(b)
WriteImage(dir, name, b) ==
    [dir EXCEPT !.files = {x \in @ : x.name # name} \cup {[name |-> name, bytes |-> b]}]

\* IMAGES_DIR.mkdir(parents=True, exist_ok=True)
Mkdir(dir) == [dir EXCEPT !.exists = TRUE]

\* if not LABELS_CSV.exists(): LABELS_CSV.write_text(header)
EnsureLabels(csv) ==
    IF csv.exists THEN csv ELSE [exists |-> TRUE, header |-> TRUE, rows |-> <<>>]

Event(tag, name, text) == [tag |-> tag, name |-> name, text |-> text]

\* ------------------------------------------------------------------------
\* Inputs of a run
\* ------------------------------------------------------------------------
\* most files in the images folder
MaxImages == 2

\* most rejected selections at one prompt that are followed
MaxRetries == 1

Failed == [ok |-> FALSE, text |-> <<>>, result |-> <<>>]

Text(t) == [ok |-> TRUE, text |-> t, result |-> <<>>]

Lines(l) == [ok |-> TRUE, text |-> <<>>, result |-> l]

File(name, bytes, tess, easy) ==
    [name |-> name, bytes |-> bytes, tess |-> tess, easy |-> easy]

\* the files the images folder may hold
FilePool ==
    { File(<<"1", ".", "j", "p", "g">>, 1, Text(<<"a", "b", "\n">>), Failed),
      File(<<"2", ".", "P", "N", "G">>, 2, Failed, Failed),
      File(<<"3", ".", "t", "x", "t">>, 3, Text(<<"a", "b">>), Failed),
      File(<<"4", ".", "j", "p", "g">>, 4, Text(<<"a", "8">>), Failed),
      File(<<"5", ".", "w", "e", "b", "p">>, 5, Text(<<" ", "\n">>),
           Lines(<<<<"A", "b", " ">>, <<"c">>>>)) }

\* results of ocr_with_conf on the invoice
InvoicePool ==
    { [lines |-> <<>>, confidences |-> <<>>, avg_conf |-> 0],
      [lines |-> << <<"1", "2", ".", "5", "0">> >>,
       confidences |-> <<9000>>, avg_conf |-> 9000],
      [lines |-> << <<"%">>, <<"A", "b", " ", "5">> >>,
       confidences |-> <<6996, 8000>>, avg_conf |-> 7498],
      [lines |-> << <<"U", "n", "m", "a", "t", "c", "h", "e", "d">> >>,
       confidences |-> <<9000>>, avg_conf |-> 9000],
      [lines |-> << <<"a", "c">>, <<"c", "a">>, <<"A", "b", " ", "c", " ", "2">>,
                    <<"b">>, <<"c", "/">>, <<"b", "c">> >>,
       confidences |-> <<9000, 9000, 9000, 6000, 9000, 9000>>, avg_conf |-> 8500] }

\* --threshold: 0, a score some text reaches (0.5), and 0.667, which lies
\* between the score 2/3 and the three decimals written for it
ThresholdPool == { <<0, 1>>, <<1, 2>>, <<667, 1000>> }

OldRow == Row(<<"1", ".", "j", "p", "g">>, <<"o", "l", "d">>, 1000, FALSE)

\* the dataset directory and the correction file before the run
DiskPool ==
    { [labels |-> [exists |-> FALSE, header |-> FALSE, rows |-> <<>>],
       images |-> [exists |-> FALSE, files |-> {}],
       corr   |-> [kind |-> "absent", members |-> <<>>]],
      [labels |-> [exists |-> TRUE, header |-> TRUE, rows |-> <<OldRow>>],
       images |-> [exists |-> TRUE,
                   files |-> {[name |-> <<"1", ".", "j", "p", "g">>, bytes |-> 9]}],
       corr   |-> [kind |-> "json",
                   members |-> << <<<<"8">>, <<"x">>>>, <<<<"8">>, <<"b">>>> >>]],
      [labels |-> [exists |-> TRUE, header |-> TRUE, rows |-> <<>>],
       images |-> [exists |-> TRUE, files |-> {}],
       corr   |-> [kind |-> "corrupt", members |-> <<>>]] }

\* lines typed at "Select [0-n]: "
SelectPool ==
    { <<"0">>, <<"1">>, <<" ", "2">>, <<"3">>, <<"4">>, <<"5">>, <<"6">>,
      <<"-", "1">>, <<"x">>, <<>> }

\* lines typed at "Add a correction mapping ... [y/N]: "
AnswerPool == { <<"y">>, <<"Y", " ">>, <<"n">>, <<>> }

\* lines typed at "Enter mapping as 'bad->good'"
PairPool ==
    { <<"8", "-", ">", "b">>, <<"8", " ", "-", ">", " ", "c">>,
      <<"-", ">", "b">>, <<"8", "-", ">">>, <<"8", "b">>,
      <<"\\", "-", ">", "\"">> }

\* ------------------------------------------------------------------------
\* State
\* ------------------------------------------------------------------------
VARIABLES
    pc,            \* position of main
    threshold,     \* args.threshold
    invoiceOcr,    \* what OCR returns for args.invoice
    srcDir,        \* the files of args.images
    labelsCsv,     \* dataset/prototype/labels.csv
    imagesDir,     \* dataset/prototype/images
    corrFile,      \* corrections.json
    corr,          \* the in-memory correction map
    invoice_descs,
    queue,         \* the paths the for loop has not reached yet
    img,           \* img_path
    raw,
    best,
    best_score,
    cand,
    choice,
    typed,         \* the last line read at "Select [0-n]: "
    pair,          \* the last line read at "Enter mapping as 'bad->good'", stripped
    total,
    auto_labeled,
    needs_review,
    retries,       \* "Invalid choice. Try again." printed at the current prompt
    stdout,        \* the other lines printed
    disk0,         \* the disk before the run
    arg,           \* the arguments of a function that is called on its own
    ret            \* what that call returned

vars == <<pc, threshold, invoiceOcr, srcDir, labelsCsv, imagesDir, corrFile, corr,
          invoice_descs, queue, img, raw, best, best_score, cand, choice, typed,
          pair, total, auto_labeled, needs_review, retries, stdout, disk0, arg, ret>>

\* what a run of main never changes
inputs == <<threshold, invoiceOcr, srcDir, disk0, arg, ret>>

locals == <<img, raw, best, best_score, cand, choice>>

console == <<typed, pair>>

counters == <<total, auto_labeled, needs_review>>

\* no line of the console is held: the frames of prompt_user_choice and
\* maybe_add_correction are gone when main takes the next file
NoLine == <<>>

NoFile == File(<<>>, 0, Failed, Failed)

\* no function is called on its own
NoCall == [fn |-> "", val |-> <<>>]

Init ==
    /\ pc = "start"
    /\ arg = NoCall
    /\ ret = NoCall
    /\ threshold \in ThresholdPool
    /\ invoiceOcr \in InvoicePool
    /\ srcDir \in {d \in SUBSET FilePool : Cardinality(d) <= MaxImages}
    /\ disk0 \in DiskPool
    /\ labelsCsv = disk0.labels
    /\ imagesDir = disk0.images
    /\ corrFile = disk0.corr
    /\ corr = <<>>
    /\ invoice_descs = <<>>
    /\ queue = <<>>
    /\ img = NoFile
    /\ raw = <<>>
    /\ best = <<>>
    /\ best_score = <<0, 1>>
    /\ cand = <<>>
    /\ choice = <<>>
    /\ typed = <<>>
    /\ pair = <<>>
    /\ total = 0
    /\ auto_labeled = 0
    /\ needs_review = 0
    /\ retries = 0
    /\ stdout = <<>>

\* ------------------------------------------------------------------------
\* collect.py: main, one action per stretch between two reads of the console
\* ------------------------------------------------------------------------
\* the row carries the score of the best match
UserRow_best(name, label, text) == Row(name, label, Fmt3(best_score), TRUE)

\* f"{dst_name},\"{choice}\",{score_match(raw, choice):.3f},true\n"
UserRow(name, label, text) == Row(name, label, Fmt3(score_match(text, label)), TRUE)

\* the row carries the score of the best match
UnmatchedRow_scored(name) == Row(name, Unmatched, Fmt3(best_score), TRUE)

\* f"{img_path.name},\"Unmatched\",0.000,true\n"
UnmatchedRow(name) == Row(name, Unmatched, 0, TRUE)

\* the map as it was loaded at the start of the run
CorrInUse_stale == load_corrections(disk0.corr)

\* the map main passes to apply_corrections for the current image
CorrInUse == corr

\* raw after apply_corrections, for the file at the head of the loop
CorrectedText(f) == apply_corrections(RawText(f), CorrInUse)

\* every number is accepted, whatever the number of candidates
Selection_unchecked(line, candidates) ==
    Eager(ParseInt(line), LAMBDA p :
          [ok |-> p.ok,
           choice |-> IF p.ok /\ p.val \in 1..Len(candidates) THEN candidates[p.val]
                      ELSE <<>>])

\* the description picked at "Select [0-n]: ", <<>> for None; ok is FALSE when
\* the line is rejected
Selection(line, candidates) ==
    Eager(ParseInt(line), LAMBDA p :
    Eager(p.ok /\ 0 <= p.val /\ p.val <= Len(candidates), LAMBDA ok :
          [ok |-> ok, choice |-> IF ok /\ p.val > 0 THEN candidates[p.val] ELSE <<>>]))

\* extract_invoice reports an error: print it and sys.exit(0)
StartAbort ==
    /\ pc = "start"
    /\ extract_invoice(invoiceOcr).error
    /\ imagesDir' = Mkdir(imagesDir)
    /\ labelsCsv' = EnsureLabels(labelsCsv)
    /\ stdout' = Append(stdout, Event("ERROR", <<>>, <<>>))
    /\ pc' = "exited"
    /\ UNCHANGED <<inputs, corrFile, corr, invoice_descs, queue, locals, console,
                   counters, retries>>

\* the invoice is read: descriptions, corrections, counters, the sorted folder
StartRun ==
    /\ pc = "start"
    /\ \E inv_res \in {extract_invoice(invoiceOcr)} :
          /\ ~inv_res.error
          /\ invoice_descs' = DescsOf(inv_res.items)
    /\ imagesDir' = Mkdir(imagesDir)
    /\ labelsCsv' = EnsureLabels(labelsCsv)
    /\ stdout' = stdout
                 \o (IF invoice_descs' = <<>> THEN <<Event("NOITEMS", <<>>, <<>>)>>
                     ELSE <<>>)
                 \o <<Event("LOADED", <<>>, <<>>)>>
    /\ corr' = load_corrections(corrFile)
    /\ total' = 0
    /\ auto_labeled' = 0
    /\ needs_review' = 0
    /\ queue' = SortedFiles(srcDir)
    /\ pc' = "loop"
    /\ UNCHANGED <<inputs, corrFile, locals, console, retries>>

\* a file whose suffix is not an image suffix: continue
SkipFile ==
    /\ pc = "loop"
    /\ queue # <<>>
    /\ ~IsImage(Head(queue))
    /\ img' = Head(queue)
    /\ queue' = Tail(queue)
    /\ typed' = NoLine
    /\ pair' = NoLine
    /\ UNCHANGED <<pc, inputs, labelsCsv, imagesDir, corrFile, corr, invoice_descs,
                   raw, best, best_score, cand, choice, counters, retries, stdout>>

\* the best description reaches the threshold: auto-assign
AutoLabel ==
    /\ pc = "loop"
    /\ queue # <<>>
    /\ IsImage(Head(queue))
    /\ \E f \in {Head(queue)} : \E text \in {CorrectedText(f)} :
       \E bm \in {BestMatch(text, invoice_descs)} :
          /\ AutoAccept(bm, threshold)
          /\ img' = f
          /\ raw' = text
          /\ best' = bm.best
          /\ best_score' = bm.best_score
          /\ imagesDir' = WriteImage(imagesDir, f.name, f.bytes)
          /\ labelsCsv' = AppendRow(labelsCsv, AutoRow(f.name, bm.best, bm.best_score))
          /\ stdout' = Append(stdout, Event("AUTO", f.name, bm.best))
    /\ total' = total + 1
    /\ auto_labeled' = auto_labeled + 1
    /\ queue' = Tail(queue)
    /\ typed' = NoLine
    /\ pair' = NoLine
    /\ UNCHANGED <<pc, inputs, corrFile, corr, invoice_descs, cand, choice,
                   needs_review, retries>>

\* no description reaches the threshold: list the candidates and prompt
AskHuman ==
    /\ pc = "loop"
    /\ queue # <<>>
    /\ IsImage(Head(queue))
    /\ \E f \in {Head(queue)} : \E text \in {CorrectedText(f)} :
       \E bm \in {BestMatch(text, invoice_descs)} :
          /\ ~AutoAccept(bm, threshold)
          /\ img' = f
          /\ raw' = text
          /\ best' = bm.best
          /\ best_score' = bm.best_score
          /\ cand' = Candidates(text, invoice_descs)
          /\ stdout' = Append(stdout, Event("PROMPT", f.name, <<>>))
    /\ total' = total + 1
    /\ queue' = Tail(queue)
    /\ retries' = 0
    /\ typed' = NoLine
    /\ pair' = NoLine
    /\ pc' = "prompt"
    /\ UNCHANGED <<inputs, labelsCsv, imagesDir, corrFile, corr, invoice_descs,
                   choice, auto_labeled, needs_review>>

\* a line that is no number in 0..n: "Invalid choice. Try again."
RejectSelection ==
    /\ pc = "prompt"
    /\ \E line \in SelectPool :
          /\ ~Selection(line, cand).ok
          /\ typed' = line
    /\ retries' = IF retries < MaxRetries THEN retries + 1 ELSE retries
    /\ UNCHANGED <<pc, inputs, labelsCsv, imagesDir, corrFile, corr, invoice_descs,
                   queue, locals, pair, counters, stdout>>

\* a candidate is selected: store the image, append its row, ask for a correction
SelectCandidate ==
    /\ pc = "prompt"
    /\ \E line \in SelectPool : \E sel \in {Selection(line, cand)} :
          /\ sel.ok
          /\ sel.choice # <<>>
          /\ typed' = line
          /\ choice' = sel.choice
          /\ imagesDir' = WriteImage(imagesDir, img.name, img.bytes)
          /\ labelsCsv' = AppendRow(labelsCsv, UserRow(img.name, sel.choice, raw))
          /\ stdout' = Append(stdout, Event("USER", img.name, sel.choice))
    /\ needs_review' = needs_review + 1
    /\ pc' = "ask_corr"
    /\ retries' = 0
    /\ UNCHANGED <<inputs, corrFile, corr, invoice_descs, queue, img, raw, best,
                   best_score, cand, pair, total, auto_labeled>>

\* the Unmatched row is appended and needs_review is not counted up
SelectNone_uncounted ==
    /\ pc = "prompt"
    /\ \E line \in SelectPool : \E sel \in {Selection(line, cand)} :
          /\ sel.ok
          /\ sel.choice = <<>>
          /\ typed' = line
          /\ choice' = sel.choice
    /\ labelsCsv' = AppendRow(labelsCsv, UnmatchedRow(img.name))
    /\ stdout' = Append(stdout, Event("SKIP", img.name, <<>>))
    /\ needs_review' = needs_review
    /\ pc' = "loop"
    /\ retries' = 0
    /\ UNCHANGED <<inputs, imagesDir, corrFile, corr, invoice_descs, queue, img, raw,
                   best, best_score, cand, pair, total, auto_labeled>>

\* "0" is selected: append the Unmatched row
SelectNone ==
    /\ pc = "prompt"
    /\ \E line \in SelectPool : \E sel \in {Selection(line, cand)} :
          /\ sel.ok
          /\ sel.choice = <<>>
          /\ typed' = line
          /\ choice' = sel.choice
    /\ labelsCsv' = AppendRow(labelsCsv, UnmatchedRow(img.name))
    /\ stdout' = Append(stdout, Event("SKIP", img.name, <<>>))
    /\ needs_review' = needs_review + 1
    /\ pc' = "loop"
    /\ retries' = 0
    /\ UNCHANGED <<inputs, imagesDir, corrFile, corr, invoice_descs, queue, img, raw,
                   best, best_score, cand, pair, total, auto_labeled>>

\* maybe_add_correction: the answer is not "y"
DeclineCorrection ==
    /\ pc = "ask_corr"
    /\ \E ans \in AnswerPool : LowerStr(Strip(ans)) # <<"y">>
    /\ pc' = "loop"
    /\ UNCHANGED <<inputs, labelsCsv, imagesDir, corrFile, corr, invoice_descs, queue,
                   locals, console, counters, retries, stdout>>

\* maybe_add_correction: the answer is "y", the mapping is asked for
AcceptCorrection ==
    /\ pc = "ask_corr"
    /\ \E ans \in AnswerPool : LowerStr(Strip(ans)) = <<"y">>
    /\ pc' = "ask_pair"
    /\ UNCHANGED <<inputs, labelsCsv, imagesDir, corrFile, corr, invoice_descs, queue,
                   locals, console, counters, retries, stdout>>


\* if "->" in pair ... if bad and good
PairAccepted(p) == p.ok /\ p.bad # <<>> /\ p.good # <<>>

\* corr[bad] = good
RecordedMap(d, bad, good) == DictSet(d, bad, good)

\* the file is left as it is
PersistedFile_stale(d) == corrFile

\* CORR_PATH.write_text(json.dumps(corr, indent=2))
PersistedFile(d) == json_dumps(d)

\* maybe_add_correction: the pair is inserted and the map is written
RecordCorrection ==
    /\ pc = "ask_pair"
    /\ \E line \in PairPool :
          /\ pair' = Strip(line)
          /\ \E p \in {ParsePair(pair')} :
                /\ PairAccepted(p)
                /\ corr' = RecordedMap(corr, p.bad, p.good)
                /\ corrFile' = PersistedFile(corr')
                /\ stdout' = Append(stdout, Event("SAVED", p.bad, p.good))
    /\ pc' = "loop"
    /\ UNCHANGED <<inputs, labelsCsv, imagesDir, invoice_descs, queue, locals, typed,
                   counters, retries>>

\* maybe_add_correction: no "->" or an empty side: nothing is recorded
RejectCorrection ==
    /\ pc = "ask_pair"
    /\ \E line \in PairPool :
          /\ pair' = Strip(line)
          /\ ~PairAccepted(ParsePair(pair'))
    /\ pc' = "loop"
    /\ UNCHANGED <<inputs, labelsCsv, imagesDir, corrFile, corr, invoice_descs, queue,
                   locals, typed, counters, retries, stdout>>

\* the folder is exhausted: print the summary
Finish ==
    /\ pc = "loop"
    /\ queue = <<>>
    /\ stdout' = Append(stdout, Event("SUMMARY", <<>>, <<>>))
    /\ typed' = NoLine
    /\ pair' = NoLine
    /\ pc' = "done"
    /\ UNCHANGED <<inputs, labelsCsv, imagesDir, corrFile, corr, invoice_descs, queue,
                   locals, counters, retries>>

Next ==
    \/ StartAbort
    \/ StartRun
    \/ SkipFile
    \/ AutoLabel
    \/ AskHuman
    \/ RejectSelection
    \/ SelectCandidate
    \/ SelectNone
    \/ DeclineCorrection
    \/ AcceptCorrection
    \/ RecordCorrection
    \/ RejectCorrection
    \/ Finish

Spec == Init /\ [][Next]_vars

\* every step but the rejection of a typed selection
Advance ==
    \/ StartAbort
    \/ StartRun
    \/ SkipFile
    \/ AutoLabel
    \/ AskHuman
    \/ SelectCandidate
    \/ SelectNone
    \/ DeclineCorrection
    \/ AcceptCorrection
    \/ RecordCorrection
    \/ RejectCorrection
    \/ Finish

\* main is sequential and every statement is executed; a read of the console
\* returns, and at "Select [0-n]: " a valid selection is typed in the end
FairSpec == Spec /\ WF_vars(Advance)

\* ------------------------------------------------------------------------
\* The functions of collect.py and invoice_parser.py, each called on its own
\* ------------------------------------------------------------------------
\* the variables of main
program == <<pc, threshold, invoiceOcr, srcDir, labelsCsv, imagesDir, corrFile, corr,
             invoice_descs, queue, img, raw, best, best_score, cand, choice, typed,
             pair, total, auto_labeled, needs_review, retries, stdout, disk0>>

\* main is not running
Detached ==
    /\ pc = "call"
    /\ threshold = <<0, 1>>
    /\ invoiceOcr = [lines |-> <<>>, confidences |-> <<>>, avg_conf |-> 0]
    /\ srcDir = {}
    /\ disk0 = [labels |-> [exists |-> FALSE, header |-> FALSE, rows |-> <<>>],
                images |-> [exists |-> FALSE, files |-> {}],
                corr   |-> [kind |-> "absent", members |-> <<>>]]
    /\ labelsCsv = disk0.labels
    /\ imagesDir = disk0.images
    /\ corrFile = disk0.corr
    /\ corr = <<>>
    /\ invoice_descs = <<>>
    /\ queue = <<>>
    /\ img = NoFile
    /\ raw = <<>>
    /\ best = <<>>
    /\ best_score = <<0, 1>>
    /\ cand = <<>>
    /\ choice = <<>>
    /\ typed = <<>>
    /\ pair = <<>>
    /\ total = 0
    /\ auto_labeled = 0
    /\ needs_review = 0
    /\ retries = 0
    /\ stdout = <<>>
    /\ ret = NoCall

\* the strings over chars of length at most n
Strings(chars, n) == UNION {[1..k -> chars] : k \in 0..n}

\* longest argument of normalize
MaxText == 3

NormalizeChars == {"A", "b", "7", "-", ".", " ", "\t", "%"}

NormalizeInit ==
    /\ Detached
    /\ arg \in {[fn |-> "normalize", val |-> s] : s \in Strings(NormalizeChars, MaxText)}

\* normalize(s)
CallNormalize ==
    /\ arg.fn = "normalize"
    /\ ret = NoCall
    /\ ret' = [fn |-> "normalize", val |-> normalize(arg.val)]
    /\ UNCHANGED <<program, arg>>

NormalizeSpec == NormalizeInit /\ [][CallNormalize]_vars

\* longest text given to apply_corrections, the example apart
MaxApplyText == 3

\* most pairs of a correction map
MaxPairs == 2

TenOzBottle == <<"1", "0", "o", "z", " ", "b", "o", "t", "t", "l", "e">>

ApplyTexts == Strings({"a", "b"}, MaxApplyText) \cup {TenOzBottle}

ApplyPairs ==
    { <<<<"a">>, <<"b">>>>, <<<<"b">>, <<"a">>>>, <<<<"a", "b">>, <<"a">>>>,
      <<<<"a">>, <<"a", "a">>>>, <<<<"a", "a">>, <<"b">>>>, <<<<"A">>, <<"b">>>>,
      <<<<"0", "o", "z">>, <<"0", " ", "o", "z">>>> }

\* the dicts of at most MaxPairs items: no key twice
ApplyMaps ==
    {d \in UNION {[1..k -> ApplyPairs] : k \in 0..MaxPairs} :
        \A i \in 1..Len(d) : \A j \in 1..Len(d) : i # j => d[i][1] # d[j][1]}

ApplyInit ==
    /\ Detached
    /\ arg \in {[fn |-> "apply_corrections", val |-> [text |-> t, map |-> d]] :
                   t \in ApplyTexts, d \in ApplyMaps}

\* apply_corrections(s, corr)
CallApplyCorrections ==
    /\ arg.fn = "apply_corrections"
    /\ ret = NoCall
    /\ ret' = [fn |-> "apply_corrections",
               val |-> apply_corrections(arg.val.text, arg.val.map)]
    /\ UNCHANGED <<program, arg>>

ApplySpec == ApplyInit /\ [][CallApplyCorrections]_vars

\* longest argument of score_match
MaxWord == 3

ScoreInit ==
    /\ Detached
    /\ arg \in {[fn |-> "score_match", val |-> [a |-> a, b |-> b]] :
                   a \in Strings({"a", "b", "c"}, MaxWord),
                   b \in Strings({"a", "b", "c"}, MaxWord)}

\* score_match(a, b)
CallScoreMatch ==
    /\ arg.fn = "score_match"
    /\ ret = NoCall
    /\ ret' = [fn |-> "score_match", val |-> score_match(arg.val.a, arg.val.b)]
    /\ UNCHANGED <<program, arg>>

ScoreSpec == ScoreInit /\ [][CallScoreMatch]_vars

\* most descriptions scanned for the best match
MaxDescs == 3

ScanTexts == { <<"a", "b">>, <<"c">>, <<>> }

ScanDescs == { <<"a", "b">>, <<"A", "b">>, <<"b">>, <<"b", "a">>, <<"a", "b", "c">> }

BestInit ==
    /\ Detached
    /\ arg \in {[fn |-> "best_match", val |-> [text |-> t, descs |-> d]] :
                   t \in ScanTexts,
                   d \in UNION {[1..k -> ScanDescs] : k \in 0..MaxDescs}}

\* best = None; best_score = 0.0; for desc in invoice_descs: ...
CallBestMatch ==
    /\ arg.fn = "best_match"
    /\ ret = NoCall
    /\ ret' = [fn |-> "best_match", val |-> BestMatch(arg.val.text, arg.val.descs)]
    /\ UNCHANGED <<program, arg>>

BestSpec == BestInit /\ [][CallBestMatch]_vars

\* the parts an invoice line is written from; an empty part is left out
LineNumbers == { <<>>, <<"1", "2", "3", "4">>, <<"1", "2", "3">> }

LineWords == { <<"A", "b">>, <<"W", "i", "d", "g", "e", "t", " ", "A">> }

LineQuantities ==
    { <<>>, <<"3", " ", "x">>, <<"0", " ", "x">>, <<"q", "t", "y", " ", "0">>,
      <<"Q", "t", "y", ":", "2">> }

LinePrices == { <<>>, <<"1", "2", ".", "5", "0">>, <<"5">> }

\* the line "<number> <words> <quantity> <price>"
LineOf(parts) ==
    JoinSpace(SelectSeq(<<parts.no, parts.words, parts.qty, parts.price>>,
                        LAMBDA part : part # <<>>))

RowInit ==
    /\ Detached
    /\ arg \in {[fn |-> "line_to_row",
                  val |-> [no |-> n, words |-> w, qty |-> q, price |-> p]] :
                   n \in LineNumbers, w \in LineWords, q \in LineQuantities,
                   p \in LinePrices}

\* line_to_row(line)
CallLineToRow ==
    /\ arg.fn = "line_to_row"
    /\ ret = NoCall
    /\ ret' = [fn |-> "line_to_row", val |-> line_to_row(LineOf(arg.val))]
    /\ UNCHANGED <<program, arg>>

RowSpec == RowInit /\ [][CallLineToRow]_vars

\* most lines given to structure_items
MaxLines == 2

ItemLines == { <<"A", "b">>, <<"1", "2", "3", "4", " ", "A", "b", " ", "1", ".", "5", "0">> }

\* confidences of lines, in ten-thousandths
ConfPool == {0, 6985, 6994, 6995, 6996, 7000, 7004, 7005, 10000}

AvgPool == {6996, 9000}

ItemsInit ==
    /\ Detached
    /\ arg \in {[fn |-> "structure_items",
                  val |-> [lines |-> l, confidences |-> c, avg_conf |-> a]] :
                   l \in UNION {[1..k -> ItemLines] : k \in 0..MaxLines},
                   c \in UNION {[1..k -> ConfPool] : k \in 0..MaxLines},
                   a \in AvgPool}
    /\ Len(arg.val.confidences) <= Len(arg.val.lines)

\* structure_items(lines, confidences, avg_conf)
CallStructureItems ==
    /\ arg.fn = "structure_items"
    /\ ret = NoCall
    /\ ret' = [fn |-> "structure_items",
               val |-> structure_items(arg.val.lines, arg.val.confidences,
                                       arg.val.avg_conf)]
    /\ UNCHANGED <<program, arg>>

ItemsSpec == ItemsInit /\ [][CallStructureItems]_vars

\* ------------------------------------------------------------------------
\* Properties
\* ------------------------------------------------------------------------
Last(q) == q[Len(q)]

\* the rows appended to labels.csv by this run
NewRows == Slice(labelsCsv.rows, Len(disk0.labels.rows) + 1, Len(labelsCsv.rows))

\* the printed lines with a tag
Printed(tag) == {i \in 1..Len(stdout) : stdout[i].tag = tag}

LastTag == IF stdout = <<>> THEN "" ELSE Last(stdout).tag

\* the scores of text against the invoice descriptions, by position
ScoreVector(text) == [i \in 1..Len(invoice_descs) |-> score_match(text, invoice_descs[i])]

\* the positions whose score is the highest
TopOf(sv) == {i \in DOMAIN sv : \A j \in DOMAIN sv : RatGe(sv[i], sv[j])}

\* a best candidate exists (some score is positive) and it reaches the threshold
ReachesThreshold(text) ==
    Eager(ScoreVector(text), LAMBDA sv :
          \E i \in TopOf(sv) : RatGt(sv[i], <<0, 1>>) /\ RatGe(sv[i], threshold))

\* C1: an image is auto-labelled exactly when a best candidate exists and its
\* score is at least the threshold: its row then carries a best-scoring
\* description, that score and needs_review = false, and no prompt was shown;
\* in every other case the prompt is shown and no row of the image is
\* written without review.
C1_AutoIffThreshold ==
    /\ Cardinality(Printed("AUTO")) + Cardinality(Printed("PROMPT")) = total
    /\ LastTag = "AUTO" =>
          /\ ReachesThreshold(raw)
          /\ Eager(ScoreVector(raw), LAMBDA sv :
                   \E i \in TopOf(sv) :
                       Last(labelsCsv.rows)
                           = Row(Last(stdout).name, invoice_descs[i], Fmt3(sv[i]), FALSE))
          /\ \A i \in Printed("PROMPT") : stdout[i].name # Last(stdout).name
    /\ LastTag = "PROMPT" =>
          /\ ~ReachesThreshold(raw)
          /\ pc = "prompt"
          /\ \A k \in 1..Len(NewRows) : NewRows[k].filename # Last(stdout).name
    /\ \A k \in 1..Len(NewRows) :
          ~NewRows[k].needs_review
             <=> \E i \in Printed("AUTO") : stdout[i].name = NewRows[k].filename
    /\ \A i \in Printed("AUTO") : \A j \in Printed("PROMPT") :
          stdout[i].name # stdout[j].name

\* an image auto-labelled with a score equal to a positive threshold
C1_Witness ==
    /\ LastTag = "AUTO"
    /\ RatEq(best_score, threshold)
    /\ RatGt(threshold, <<0, 1>>)

\* the names of the files of the folder that are processed as images
ImageNames == {f.name : f \in {g \in srcDir : IsImage(g)}}

RowNames == {NewRows[k].filename : k \in 1..Len(NewRows)}

\* C2: the label table is its content before the run followed by one new row
\* per processed image, in ascending file name order; a row is appended only
\* when its image is AutoLabeled, UserLabeled or Unmatched, never while the
\* image waits for the human decision; at the end every image has its row.
C2_OneRowPerImageInOrder ==
    /\ Slice(labelsCsv.rows, 1, Len(disk0.labels.rows)) = disk0.labels.rows
    /\ RowNames \subseteq ImageNames
    /\ \A i \in 1..Len(NewRows) : \A j \in 1..Len(NewRows) :
          i < j => LexLess(NewRows[i].filename, NewRows[j].filename)
    /\ Len(NewRows) = Cardinality(Printed("AUTO")) + Cardinality(Printed("USER"))
                      + Cardinality(Printed("SKIP"))
    /\ pc = "prompt" => Len(NewRows) = total - 1 /\ img.name \notin RowNames
    /\ pc = "done" => RowNames = ImageNames /\ Len(NewRows) = Cardinality(ImageNames)

\* a finished run that added two rows after an older one
C2_Witness ==
    /\ pc = "done"
    /\ Len(NewRows) = 2
    /\ disk0.labels.rows # <<>>
    /\ Printed("USER") # {}

\* C3: when the invoice is unreadable the run stops with the error before any
\* image is processed, and labels.csv (its existence too) and the image store
\* are as they were before the run.
C3_AbortLeavesTableUntouched ==
    pc = "exited" =>
        /\ Printed("ERROR") # {}
        /\ total = 0
        /\ Printed("AUTO") \cup Printed("PROMPT") = {}
        /\ labelsCsv = disk0.labels
        /\ imagesDir.files = disk0.images.files

\* the files whose OCR result is all-empty
EmptyOcrNames ==
    {f.name : f \in {g \in srcDir :
                        IsImage(g)
                        /\ read_text(g.tess, g.easy) = [full_text |-> <<>>, lines |-> <<>>]}}

\* C4: an image whose OCR result is all-empty is never auto-labelled and its
\* row has confidence 0; the score of the empty text against every invoice
\* description is 0.
C4_EmptyOcrNeverAutoLabelled ==
    /\ \A i \in Printed("AUTO") : stdout[i].name \notin EmptyOcrNames
    /\ \A k \in 1..Len(NewRows) :
          NewRows[k].filename \in EmptyOcrNames => NewRows[k].confidence = 0
    /\ \A i \in 1..Len(invoice_descs) :
          RatEq(score_match(<<>>, invoice_descs[i]), <<0, 1>>)

\* the invoice was read and none of its items has a description
NoDescriptions ==
    Eager(extract_invoice(invoiceOcr), LAMBDA res :
          ~res.error /\ \A i \in 1..Len(res.items) : res.items[i].desc = <<>>)

\* C5: when the invoice yields no description the run goes on, every image is
\* prompted with an empty candidate list, none is AutoLabeled or UserLabeled,
\* and every row written is the Unmatched row; at the end every image has one.
C5_NoDescriptionsAllUnmatched ==
    NoDescriptions =>
        /\ pc # "exited"
        /\ Printed("AUTO") \cup Printed("USER") = {}
        /\ pc = "prompt" => cand = <<>>
        /\ pc \notin {"ask_corr", "ask_pair"}
        /\ \A k \in 1..Len(NewRows) :
              NewRows[k] = Row(NewRows[k].filename, Unmatched, 0, TRUE)
        /\ pc = "done" => RowNames = ImageNames /\ Len(NewRows) = total

\* a finished run without descriptions that left two images Unmatched
C5_Witness ==
    /\ NoDescriptions
    /\ pc = "done"
    /\ Cardinality(Printed("SKIP")) = 2
    /\ Len(NewRows) = 2

\* the rows of this run that carry the name of the image in hand
RowsOfImage == {k \in 1..Len(NewRows) : NewRows[k].filename = img.name}

\* C6: after a candidate is selected the image has one row: its label is the
\* selected description, one of those offered, its confidence is the score of
\* the corrected text against that description, and needs_review is true.
C6_UserRowScoresChoice ==
    pc = "ask_corr" =>
        /\ \E i \in 1..Len(cand) : cand[i] = choice
        /\ Last(stdout) = Event("USER", img.name, choice)
        /\ Last(labelsCsv.rows)
             = Row(img.name, choice, Fmt3(score_match(raw, choice)), TRUE)
        /\ Cardinality(RowsOfImage) = 1
        /\ [name |-> img.name, bytes |-> img.bytes] \in imagesDir.files

\* the selected description is not the best match and scores less
C6_Witness ==
    /\ pc = "ask_corr"
    /\ choice # best
    /\ RatGt(best_score, score_match(raw, choice))
    /\ RatGt(score_match(raw, choice), <<0, 1>>)

\* the step that prints [SKIP]
SkipStep == Len(stdout') = Len(stdout) + 1 /\ Last(stdout').tag = "SKIP"

\* C7: the selection of "none" appends the row ("Unmatched", 0.000, true) of
\* the image, whatever the scores of the candidates, and leaves the correction
\* map, the correction file and the image store as they are.
C7_NoneAppendsUnmatched ==
    [][SkipStep =>
          /\ pc = "prompt"
          /\ labelsCsv'.rows = Append(labelsCsv.rows, Row(img.name, Unmatched, 0, TRUE))
          /\ needs_review' = needs_review + 1
          /\ UNCHANGED <<corr, corrFile, imagesDir, total, auto_labeled>>]_vars

\* "none" was selected although a candidate scored above 0
C7_Witness ==
    /\ LastTag = "SKIP"
    /\ cand # <<>>
    /\ RatGt(best_score, <<0, 1>>)
    /\ Last(labelsCsv.rows) = Row(img.name, Unmatched, 0, TRUE)

Numeral(k) == <<"0", "1", "2", "3", "4", "5", "6", "7", "8", "9">>[k + 1]

\* the typed line, trimmed, is the numeral of a number in 0..n
ValidSelection(line, n) == \E k \in 0..n : Strip(line) = <<Numeral(k)>>

\* one step at "Select [0-n]: "
PromptStep ==
    pc = "prompt" =>
        IF ValidSelection(typed', Len(cand))
        THEN /\ pc' # "prompt"
             /\ Len(labelsCsv'.rows) = Len(labelsCsv.rows) + 1
        ELSE /\ pc' = "prompt"
             /\ UNCHANGED <<labelsCsv, imagesDir, corrFile, corr, invoice_descs, queue,
                            locals, pair, counters, stdout>>

\* C8: at the prompt a line that is no number in 0..n changes nothing and the
\* prompt is repeated; the image leaves the prompt exactly on a valid
\* selection; when every prompt gets a valid selection in the end, the run
\* reaches its end.
C8_RetryUntilValid ==
    /\ [][PromptStep]_vars
    /\ <>(pc \in {"done", "exited"})

\* the prompt was repeated as often as the model counts, after an invalid line
C8_Witness ==
    /\ pc = "prompt"
    /\ retries = MaxRetries
    /\ ~ValidSelection(typed, Len(cand))
    /\ cand # <<>>

KeysOf(d) == {d[i][1] : i \in 1..Len(d)}

ValueOf(d, k) == d[CHOOSE i \in 1..Len(d) : d[i][1] = k][2]

\* one step at "Enter mapping as 'bad->good'"
PairStep ==
    pc = "ask_pair" =>
        \E p \in {ParsePair(pair')} :
            IF p.ok /\ p.bad # <<>> /\ p.good # <<>>
            THEN /\ KeysOf(corr') = KeysOf(corr) \cup {p.bad}
                 /\ Len(corr') = Cardinality(KeysOf(corr'))
                 /\ ValueOf(corr', p.bad) = p.good
                 /\ \A k \in KeysOf(corr) \ {p.bad} : ValueOf(corr', k) = ValueOf(corr, k)
                 /\ load_corrections(corrFile') = corr'
            ELSE UNCHANGED <<corr, corrFile>>

\* C9: a pair with an empty side (or without "->") is rejected and the map
\* and the file stay as they are; otherwise the pair is inserted, an earlier
\* value of the key is overwritten, the other keys keep their values, and a
\* load of the file written returns the map in memory.
C9_RecordPersists ==
    [][/\ PairStep
       /\ pc \notin {"ask_pair", "start"} => UNCHANGED <<corr, corrFile>>
       /\ pc = "start" => corrFile' = corrFile]_vars

\* a pair was recorded over an earlier value of its key
C9_Witness ==
    /\ LastTag = "SAVED"
    /\ Last(stdout).name \in KeysOf(load_corrections(disk0.corr))
    /\ ValueOf(load_corrections(disk0.corr), Last(stdout).name) # Last(stdout).text
    /\ ValueOf(corr, Last(stdout).name) = Last(stdout).text
    /\ load_corrections(corrFile) = corr

\* the map loaded at the start with the pairs saved by the first n lines printed
RECURSIVE SavedUpTo(_)
SavedUpTo(n) ==
    IF n = 0 THEN load_corrections(disk0.corr)
    ELSE Eager(SavedUpTo(n - 1), LAMBDA d :
               IF stdout[n].tag = "SAVED" THEN DictSet(d, stdout[n].name, stdout[n].text)
               ELSE d)

\* C10: the text of an image is corrected with the map loaded at the start
\* plus every pair saved before in the same run; the rows already written
\* stay as they are.
C10_CorrectionVisibleToLaterImages ==
    [][/\ total' = total + 1
          => raw' = apply_corrections(RawText(img'), SavedUpTo(Len(stdout)))
       /\ Slice(labelsCsv'.rows, 1, Len(labelsCsv.rows)) = labelsCsv.rows]_vars

\* a pair saved for an earlier image changed the text of the image in hand
C10_Witness ==
    /\ LastTag \in {"AUTO", "PROMPT"}
    /\ \E i \in Printed("SAVED") :
          /\ stdout[i].name \notin KeysOf(load_corrections(disk0.corr))
          /\ raw # apply_corrections(RawText(img), load_corrections(disk0.corr))
          /\ raw = Replace(RawText(img), stdout[i].name, stdout[i].text)
    /\ Len(NewRows) >= 1

RECURSIVE ReplaceEvery(_, _, _)
ReplaceEvery(s, bad, good) ==
    Eager(Find(s, bad), LAMBDA at :
          IF at = 0 THEN s
          ELSE Eager(Slice(s, at + Len(bad), Len(s)), LAMBDA rest :
                     Slice(s, 1, at - 1) \o good \o ReplaceEvery(rest, bad, good)))

\* text after the first n pairs of map, each acting on the result of the
\* pairs before it
RECURSIVE AfterPairs(_, _, _)
AfterPairs(text, map, n) ==
    IF n = 0 THEN text
    ELSE Eager(AfterPairs(text, map, n - 1), LAMBDA before :
               ReplaceEvery(before, map[n][1], map[n][2]))

\* the positions of s where pat occurs
Occurrences(s, pat) == {i \in 1..Len(s) : OccursAt(s, pat, i)}

\* C11: apply_corrections replaces, pair after pair in the order of the map,
\* every occurrence of bad by good in the running string; an empty map leaves
\* the text as it is; {"0oz": "0 oz"} applied to "10oz bottle" gives a string
\* that holds "0 oz" once.
C11_ApplyReplacesInOrder ==
    ret.fn = "apply_corrections" =>
        /\ ret.val = AfterPairs(arg.val.text, arg.val.map, Len(arg.val.map))
        /\ arg.val.map = <<>> => ret.val = arg.val.text
        /\ (/\ arg.val.text = TenOzBottle
            /\ arg.val.map = << <<<<"0", "o", "z">>, <<"0", " ", "o", "z">>>> >>)
           => Cardinality(Occurrences(ret.val, <<"0", " ", "o", "z">>)) = 1

\* the second pair acted on what the first pair wrote
C11_Witness ==
    /\ ret.fn = "apply_corrections"
    /\ arg.val.text = <<"a", "b">>
    /\ arg.val.map = << <<<<"a">>, <<"b">>>>, <<<<"b">>, <<"a">>>> >>
    /\ ret.val = <<"a", "a">>

\* C12: the score is symmetric: score_match(a, b) = score_match(b, a).
C12_ScoreSymmetric ==
    ret.fn = "score_match" => RatEq(ret.val, score_match(arg.val.b, arg.val.a))

\* the scores of text against descs, in the order of descs
ScoresOf(text, descs) == [i \in 1..Len(descs) |-> score_match(text, descs[i])]

\* the first position of sv that holds its maximum
FirstMax(sv) ==
    CHOOSE i \in DOMAIN sv :
        /\ \A j \in DOMAIN sv : RatGe(sv[i], sv[j])
        /\ \A j \in 1..(i - 1) : RatGt(sv[i], sv[j])

\* C13, as claimed: the scan returns the first description, in input order,
\* that has the maximum score, and that score.
C13_FirstMaximumReturned ==
    (ret.fn = "best_match" /\ arg.val.descs # <<>>) =>
        Eager(ScoresOf(arg.val.text, arg.val.descs), LAMBDA sv :
        Eager(FirstMax(sv), LAMBDA i :
              /\ ret.val.best = arg.val.descs[i]
              /\ RatEq(ret.val.best_score, sv[i])))

\* C13, amended: when some description scores above 0 the scan returns the
\* first description, in input order, that has the maximum score, and that
\* score; when none does, or there is no description, it returns no
\* description and the score 0.
C13_FirstPositiveMaximumReturned ==
    ret.fn = "best_match" =>
        Eager(ScoresOf(arg.val.text, arg.val.descs), LAMBDA sv :
              IF \E i \in DOMAIN sv : RatGt(sv[i], <<0, 1>>)
              THEN Eager(FirstMax(sv), LAMBDA i :
                         /\ ret.val.best = arg.val.descs[i]
                         /\ RatEq(ret.val.best_score, sv[i]))
              ELSE /\ ret.val.best = <<>>
                   /\ ret.val.best_score = <<0, 1>>)

\* the second description won over a later one with the same score
C13_Witness ==
    /\ ret.fn = "best_match"
    /\ arg.val.text = <<"a", "b">>
    /\ arg.val.descs = << <<"b">>, <<"A", "b">>, <<"a", "b">> >>
    /\ ret.val.best = <<"A", "b">>
    /\ RatEq(ret.val.best_score, <<1, 1>>)

\* C14: for a line "<item number of 4 digits or more> <description>
\* <digits> x <price with two decimals>" line_to_row gives the item number,
\* the quantity, the price, and a desc that holds the description and holds
\* neither the item number nor the quantity token nor the price token.
C14_PriceLineSplit ==
    (/\ ret.fn = "line_to_row"
     /\ arg.val.no = <<"1", "2", "3", "4">>
     /\ arg.val.qty = <<"3", " ", "x">>
     /\ arg.val.price = <<"1", "2", ".", "5", "0">>)
    => /\ ret.val.item_no = <<"1", "2", "3", "4">>
       /\ ret.val.qty = 3
       /\ ret.val.price = 1250
       /\ Find(ret.val.desc, arg.val.words) # 0
       /\ Find(ret.val.desc, arg.val.no) = 0
       /\ Find(ret.val.desc, arg.val.qty) = 0
       /\ Find(ret.val.desc, arg.val.price) = 0

\* C16: line_to_row gives qty >= 1 for every line, and qty 1 for a line
\* without a quantity token.
C16_QtyAtLeastOne ==
    ret.fn = "line_to_row" =>
        /\ ret.val.qty >= 1
        /\ arg.val.qty = <<>> => ret.val.qty = 1

\* the confidence structure_items takes for line i, in ten-thousandths
GivenConfidence(i) ==
    IF i <= Len(arg.val.confidences) THEN arg.val.confidences[i] ELSE arg.val.avg_conf

\* C15: the confidence of every item is the confidence of its line (the
\* average when the line has none) rounded to three decimals, and needs_review
\* is true exactly when that confidence field is below 0.700.
C15_ReviewFollowsRoundedConfidence ==
    ret.fn = "structure_items" =>
        /\ Len(ret.val) = Len(arg.val.lines)
        /\ \A i \in 1..Len(ret.val) :
              /\ 10 * ret.val[i].confidence - GivenConfidence(i) \in -5..5
              /\ ret.val[i].needs_review <=> ret.val[i].confidence < 700

\* the place of description i in the ranking of sv: one more than the number
\* of descriptions that score higher, or the same and come earlier
RankOf(sv, i) ==
    1 + Cardinality({j \in DOMAIN sv :
                        \/ RatGt(sv[j], sv[i])
                        \/ RatEq(sv[j], sv[i]) /\ j < i})

Min(x, y) == IF x < y THEN x ELSE y

\* C18: at the prompt the candidates are the min(5, n) highest-scoring
\* descriptions for the corrected text, in descending order of score, equal
\* scores in invoice order; no description left out scores higher than one
\* offered; "0" selects none; a best match, when there is one, comes first.
C18_TopFiveOffered ==
    pc = "prompt" =>
        Eager(ScoreVector(raw), LAMBDA sv :
              /\ Len(cand) = Min(5, Len(invoice_descs))
              /\ \A k \in 1..Len(cand) :
                    \E i \in DOMAIN sv : RankOf(sv, i) = k /\ cand[k] = invoice_descs[i]
              /\ \A i \in DOMAIN sv :
                    RankOf(sv, i) > Len(cand)
                    => \A k \in 1..Len(cand) :
                          RatGe(score_match(raw, cand[k]), sv[i])
              /\ Selection(<<"0">>, cand) = [ok |-> TRUE, choice |-> <<>>]
              /\ best # <<>> => cand[1] = best)

\* five of six descriptions are offered, two of them with the same score, and
\* the best match is below the threshold
C18_Witness ==
    /\ pc = "prompt"
    /\ Len(invoice_descs) = 6
    /\ Len(cand) = 5
    /\ best # <<>>
    /\ cand[1] # invoice_descs[1]
    /\ \E k \in 1..4 : RatEq(score_match(raw, cand[k]), score_match(raw, cand[k + 1]))
    /\ RatGt(score_match(raw, cand[5]), <<0, 1>>)

\* the rows of this run written with needs_review = flag
RowsFlagged(flag) == {k \in 1..Len(NewRows) : NewRows[k].needs_review = flag}

\* C19: auto_labeled counts the images that ended AutoLabeled, needs_review
\* those that ended UserLabeled or Unmatched; between two images and at the
\* end total = auto_labeled + needs_review = the number of rows appended; at
\* the end total is the number of images of the folder.
C19_CountersMatchRows ==
    /\ auto_labeled = Cardinality(RowsFlagged(FALSE))
    /\ auto_labeled = Cardinality(Printed("AUTO"))
    /\ needs_review = Cardinality(RowsFlagged(TRUE))
    /\ needs_review = Cardinality(Printed("USER")) + Cardinality(Printed("SKIP"))
    /\ pc \in {"loop", "ask_corr", "ask_pair", "done"}
          => total = auto_labeled + needs_review /\ total = Len(NewRows)
    /\ pc = "prompt" => total = auto_labeled + needs_review + 1
    /\ pc = "done" => total = Cardinality(ImageNames)

\* a finished run that counted one image auto-labeled and one left Unmatched
C19_Witness ==
    /\ pc = "done"
    /\ Cardinality(Printed("SKIP")) = 1
    /\ auto_labeled = 1
    /\ needs_review = 1
    /\ total = 2

\* the images of the folder whose bytes the image store holds under their name
StoredNames ==
    {f.name : f \in {g \in srcDir :
                        IsImage(g) /\ [name |-> g.name, bytes |-> g.bytes] \in imagesDir.files}}

\* the names of the rows of this run with a label other than "Unmatched"
LabelledNames ==
    {NewRows[k].filename : k \in {j \in 1..Len(NewRows) : NewRows[j].label # Unmatched}}

\* C20: the bytes of an image are stored under its name exactly when the image
\* ended AutoLabeled or UserLabeled; after the run the names stored by the run
\* are the names whose new row has a label other than "Unmatched", and the
\* other files of the store are as they were.
C20_StoredIffLabelled ==
    pc = "done" =>
        /\ StoredNames = LabelledNames
        /\ \A x \in imagesDir.files :
              x.name \notin StoredNames => x \in disk0.images.files
        /\ \A x \in disk0.images.files :
              x.name \notin StoredNames => x \in imagesDir.files

\* the confidence field of a row, thousandths, as a rational
Recorded(row) == <<row.confidence, 1000>>

\* C21: for a threshold above 0 every row of the run with needs_review = true
\* records a score strictly below the threshold, the row of a selected
\* candidate included, and every row whose recorded score is at least the
\* threshold has needs_review = false.
C21_ReviewedBelowThreshold ==
    RatGt(threshold, <<0, 1>>) =>
        /\ pc = "ask_corr" => RatGt(threshold, Recorded(Last(labelsCsv.rows)))
        /\ \A k \in 1..Len(NewRows) :
              /\ NewRows[k].needs_review => RatGt(threshold, Recorded(NewRows[k]))
              /\ RatGe(Recorded(NewRows[k]), threshold) => ~NewRows[k].needs_review

====
